---- MODULE Spec2Model ----
(***************************************************************************)
(* Model of src/src/encoder.rs: the lazily loaded centroid table           *)
(* (CENTROIDS, load_cluster_centroids), the encoder adapter                *)
(* (EncoderModel::encode), the centroid ranker (assign_cluster_labels) and *)
(* the batch driver (EncoderModel::transform).                             *)
(*                                                                         *)
(* Numbers are integers.  A tensor is a record [dims, values] whose values *)
(* are the flat row-major data, as tensorflow::Tensor holds them.          *)
(***************************************************************************)
EXTENDS Integers, Sequences, FiniteSets

VARIABLES
    asset,                  \* the centroid CSV file as found on disk
    graph,                  \* operation names present in the loaded model graph
    centroids,              \* the lazy static CENTROIDS
    pc,                     \* position inside transform
    input_data,             \* argument of the running transform call
    lf_array,               \* what encode returned to transform
    next,                   \* index of the next chunk the map closure takes
    ranked_cluster_labels,  \* results collected so far
    outcome,                \* how the call ended: none, ok, err, panic
    error,                  \* the error an err outcome carries
    encoderRuns,            \* session.run calls of the encoder in this call
    rankCalls,              \* assign_cluster_labels calls in this call
    failedRows,             \* chunks whose ranking ended in Err
    faults                  \* ranking sessions that failed in this call

vars == <<asset, graph, centroids, pc, input_data, lf_array, next,
          ranked_cluster_labels, outcome, error, encoderRuns, rankCalls,
          failedRows, faults>>

----------------------------------------------------------------------------
(* Bounds of the model. *)

MaxRows == 3
MaxFaults == 1

(* Width of the slice taken from a latent row: size_tensor [1, 128]. *)
SliceWidth == 128

----------------------------------------------------------------------------
(* Sequence helpers. *)

Min(a, b) == IF a < b THEN a ELSE b

Take(s, n) == SubSeq(s, 1, Min(n, Len(s)))

Drop(s, n) == SubSeq(s, Min(n, Len(s)) + 1, Len(s))

RECURSIVE Concat(_)
Concat(ss) == IF ss = <<>> THEN <<>> ELSE Head(ss) \o Concat(Tail(ss))

RECURSIVE Product(_)
Product(ds) == IF ds = <<>> THEN 1 ELSE Head(ds) * Product(Tail(ds))

SeqsUpTo(S, n) == UNION {[1..k -> S] : k \in 0..n}

(* Tensor::new(dims).with_values(values): Err unless the element counts agree. *)
WithValues(dims, values) ==
    IF Product(dims) = Len(values)
    THEN [ok |-> TRUE, dims |-> dims, values |-> values]
    ELSE [ok |-> FALSE, dims |-> <<>>, values |-> <<>>]

----------------------------------------------------------------------------
(* The centroid asset and its loading. *)

WideLine(a, b) == [i \in 1..SliceWidth |-> IF i = 1 THEN a ELSE IF i = SliceWidth THEN b ELSE 0]

Zeros(n) == [i \in 1..n |-> 0]

File(lines) == [readable |-> TRUE, numeric |-> TRUE, lines |-> lines]

AssetWide == File(<<WideLine(0, 0), WideLine(10, 10), WideLine(5, 5)>>)
AssetTie == File(<<WideLine(2, 0), WideLine(0, 2), WideLine(0, 0)>>)
AssetExample == File(<<<<0, 0>>, <<10, 10>>, <<5, 5>>>>)
AssetNarrow == File(<<<<3>>, <<0>>>>)
AssetRagged == File(<<<<1, 2>>, <<3>>, <<4, 5, 6>>>>)
AssetRaggedShort == File(<<<<1, 2>>, <<3>>>>)
AssetEmpty == File(<<>>)
AssetMissing == [readable |-> FALSE, numeric |-> TRUE, lines |-> <<>>]
AssetNotNumeric == [readable |-> TRUE, numeric |-> FALSE, lines |-> <<<<0, 0>>>>]

Assets ==
    {AssetWide, AssetTie, AssetExample, AssetNarrow, AssetRagged, AssetRaggedShort,
     AssetEmpty, AssetMissing, AssetNotNumeric}

Uninit == [state |-> "uninit", dims |-> <<>>, values |-> <<>>]
Poisoned == [state |-> "poisoned", dims |-> <<>>, values |-> <<>>]

(* Array2::from_shape_vec((rows, cols), v): Err unless v has rows * cols elements. *)
FromShapeVec(rows, cols, v) == WithValues(<<rows, cols>>, v)

(* load_cluster_centroids followed by the unwrap of the lazy static: the table, *)
(* or Poisoned when the load returns Err or panics.                             *)
load_cluster_centroids(a) ==
    IF ~a.readable THEN Poisoned
    ELSE IF ~a.numeric THEN Poisoned
    ELSE IF a.lines = <<>> THEN Poisoned
    ELSE LET array == FromShapeVec(Len(a.lines), Len(a.lines[1]), Concat(a.lines))
         IN  IF array.ok
             THEN [state |-> "ready", dims |-> array.dims, values |-> array.values]
             ELSE Poisoned

(* Dereferencing the lazy static: initialised on first use, kept afterwards. *)
Deref(c, a) == IF c.state = "uninit" THEN load_cluster_centroids(a) ELSE c

----------------------------------------------------------------------------
(* The centroid ranker: assign_cluster_labels. *)

(* ops::Slice with begin [0, 0] and size [1, SliceWidth] on a [1, W] tensor: *)
(* Err unless the row holds at least SliceWidth entries.                     *)
Slice(row) ==
    IF Len(row.dims) = 2 /\ row.dims[1] >= 1 /\ row.dims[2] >= SliceWidth
    THEN [ok |-> TRUE, dims |-> <<1, SliceWidth>>, values |-> Take(row.values, SliceWidth)]
    ELSE [ok |-> FALSE, dims |-> <<>>, values |-> <<>>]

(* ops::Sub broadcasts [K, D] against [1, S]: the widths must agree or one be 1. *)
Broadcastable(D, S) == D = S \/ D = 1 \/ S = 1

BroadcastWidth(D, S) == IF D = 1 THEN S ELSE D

(* Entry (k, j) of Sub(centroids, lf_slice), k and j counted from 1. *)
Diff(cen, sl, k, j) ==
    LET D == cen.dims[2]
        S == sl.dims[2]
    IN  cen.values[(k - 1) * D + (IF D = 1 THEN 1 ELSE j)]
          - sl.values[IF S = 1 THEN 1 ELSE j]

(* Sum over columns lo..hi of Square(Sub(...)) in row k, by halves. *)
RECURSIVE SquaredSum(_, _, _, _, _)
SquaredSum(cen, sl, k, lo, hi) ==
    IF lo > hi THEN 0
    ELSE IF lo = hi THEN Diff(cen, sl, k, lo) * Diff(cen, sl, k, lo)
    ELSE LET mid == (lo + hi) \div 2
         IN  SquaredSum(cen, sl, k, lo, mid) + SquaredSum(cen, sl, k, mid + 1, hi)

(* Sqrt(Mean(Square(Sub(...)), axis 1)) for row k.  The value kept is N times *)
(* the square of the distance, N the common row width of the difference:     *)
(* x |-> sqrt(x / N) is strictly increasing, so two rows compare as their    *)
(* distances do, and the integers stay exact.                                *)
Distance(cen, sl, k) ==
    SquaredSum(cen, sl, k, 1, BroadcastWidth(cen.dims[2], sl.dims[2]))

(* ops::Neg *)
Neg(x) == 0 - x

(* A variant of k_tensor that takes the other dimension. *)
KTensorColumns(cen) == cen.dims[2]

(* k_tensor: the number of rows of CENTROIDS. *)
KTensor(cen) == cen.dims[1]

(* The position TopKV2 emits next among the positions left: a largest value, *)
(* and of equal values the one at the lower index.                           *)
TopOf(v, left) ==
    CHOOSE i \in left : \A j \in left : v[i] > v[j] \/ (v[i] = v[j] /\ i <= j)

RECURSIVE TopKIndices(_, _, _)
TopKIndices(v, left, k) ==
    IF k = 0 THEN <<>>
    ELSE LET i == TopOf(v, left)
         IN  <<i - 1>> \o TopKIndices(v, left \ {i}, k - 1)

(* ops::TopKV2, output 1 (the indices, counted from 0): Err when k exceeds *)
(* the length of the input.                                                *)
TopKV2(v, k) ==
    IF k > Len(v) THEN [ok |-> FALSE, labels |-> <<>>]
    ELSE [ok |-> TRUE, labels |-> TopKIndices(v, 1..Len(v), k)]

(* assign_cluster_labels on a [1, W] row tensor; sessionFails is the outcome *)
(* of Session::new / session.run as the runtime decides it.                  *)
assign_cluster_labels(cen, row, sessionFails) ==
    LET sl == Slice(row)
    IN  IF ~sl.ok \/ ~Broadcastable(cen.dims[2], sl.dims[2]) \/ sessionFails
        THEN [ok |-> FALSE, labels |-> <<>>]
        ELSE LET negated_distance == [k \in 1..cen.dims[1] |-> Neg(Distance(cen, sl, k))]
             IN  TopKV2(negated_distance, KTensor(cen))

----------------------------------------------------------------------------
(* The encoder adapter: EncoderModel::encode. *)

InputOp == "serving_default_dense_input"
OutputOp == "StatefulPartitionedCall"

Graphs == {{InputOp, OutputOp}, {OutputOp}, {InputOp}}

(* Feature rows of a batch: the encoder is opaque, only their lengths matter. *)
FeatureRows == {<<>>, <<1>>, <<1, 1>>}

Batches == SeqsUpTo(FeatureRows, MaxRows)

(* Latent rows the encoder model may answer with, by width. *)
WideRow(a, b, t, w) ==
    [i \in 1..w |-> IF i = 1 THEN a ELSE IF i = SliceWidth THEN b
                    ELSE IF i > SliceWidth THEN t ELSE 0]

LatentWidths == {0, 2, SliceWidth - 1, SliceWidth, SliceWidth + 1}

LatentRows(w) ==
    IF w = 0 THEN {<<>>}
    ELSE IF w = 2 THEN {<<1, 1>>}
    ELSE IF w = SliceWidth - 1 THEN {Zeros(w)}
    ELSE IF w = SliceWidth THEN {WideRow(1, 1, 0, w), WideRow(9, 8, 0, w)}
    ELSE {WideRow(1, 1, 7, w)}

Tensor(dims, values) == [dims |-> dims, values |-> values]

(* Output tensors the encoder model may produce for a batch of n rows: the  *)
(* [n, w] tensors, and tensors of another rank or another row count.        *)
LatentOutputs(n) ==
    UNION {{Tensor(<<n, w>>, Concat(rs)) : rs \in [1..n -> LatentRows(w)]} : w \in LatentWidths}
    \cup {Tensor(<<n>>, Zeros(n)),
          Tensor(<<n, 2, 2>>, Zeros(n * 4)),
          Tensor(<<n + 1, SliceWidth>>, Zeros((n + 1) * SliceWidth))}

(* What the runtime answers to session.run and fetch. *)
EncoderReplies(n) ==
    {[fault |-> "none", tensor |-> t] : t \in LatentOutputs(n)}
    \cup {[fault |-> f, tensor |-> Tensor(<<>>, <<>>)] : f \in {"run", "fetch"}}

EncodeOk(t) == [status |-> "ok", error |-> "none", runs |-> 1, tensor |-> t]
EncodeErr(e, runs) == [status |-> "err", error |-> e, runs |-> runs, tensor |-> Tensor(<<>>, <<>>)]
EncodePanic == [status |-> "panic", error |-> "none", runs |-> 0, tensor |-> Tensor(<<>>, <<>>)]

(* encode from line 48 on, for a batch that has a first row. *)
encode_rows(input, g, reply) ==
    LET rows == Len(input)
        cols == Len(input[1])
        input_tensor == WithValues(<<rows, cols>>, Concat(input))
    IN  IF ~input_tensor.ok THEN EncodeErr("shape", 0)
        ELSE IF InputOp \notin g THEN EncodeErr("no_input_op", 0)
        ELSE IF OutputOp \notin g THEN EncodeErr("no_output_op", 0)
        ELSE IF reply.fault = "run" THEN EncodeErr("run", 1)
        ELSE IF reply.fault = "fetch" THEN EncodeErr("fetch", 1)
        ELSE EncodeOk(reply.tensor)

(* A variant of encode that answers an empty batch with a shape error. *)
encode_empty_checked(input, g, reply) ==
    IF input = <<>> THEN EncodeErr("shape", 0) ELSE encode_rows(input, g, reply)

(* EncoderModel::encode: the result, and how often the encoder session ran. *)
(* input_data[0] is indexed first: an empty batch panics there.             *)
encode(input, g, reply) ==
    IF input = <<>> THEN EncodePanic ELSE encode_rows(input, g, reply)

----------------------------------------------------------------------------
(* The batch driver: EncoderModel::transform. *)

(* A variant of the ? that lets an Err of encode pass. *)
NeverPropagates(r) == FALSE

(* The ? on the result of encode: an Err leaves transform at once. *)
Propagates(r) == r.status = "err"

(* A variant of chunks that yields the pieces last to first. *)
RECURSIVE ChunksReversed(_, _)
ChunksReversed(values, cols) ==
    IF values = <<>> THEN <<>>
    ELSE ChunksReversed(Drop(values, cols), cols) \o <<Take(values, cols)>>

(* slice::chunks(cols): pieces of cols entries, the last one shorter when the *)
(* length is no multiple of cols.                                            *)
RECURSIVE Chunks(_, _)
Chunks(values, cols) ==
    IF values = <<>> THEN <<>>
    ELSE <<Take(values, cols)>> \o Chunks(Drop(values, cols), cols)

(* A variant of the closure that gives up the batch on a row error. *)
OnRowErrorAbort(acc) == [results |-> acc, abort |-> TRUE]

(* What the map closure yields for a row whose ranking ended in Err: the *)
(* empty list, and the iteration goes on.                                *)
OnRowError(acc) == [results |-> Append(acc, <<>>), abort |-> FALSE]

NoTensor == Tensor(<<>>, <<>>)

Init ==
    /\ asset \in Assets
    /\ graph \in Graphs
    /\ centroids = Uninit
    /\ pc = "idle"
    /\ input_data = <<>>
    /\ lf_array = NoTensor
    /\ next = 0
    /\ ranked_cluster_labels = <<>>
    /\ outcome = "none"
    /\ error = "none"
    /\ encoderRuns = 0
    /\ rankCalls = 0
    /\ failedRows = {}
    /\ faults = 0

(* A caller enters transform with a batch. *)
Transform ==
    /\ pc = "idle"
    /\ \E batch \in Batches : input_data' = batch
    /\ pc' = "encode"
    /\ UNCHANGED <<asset, graph, centroids, lf_array, next, ranked_cluster_labels,
                   outcome, error, encoderRuns, rankCalls, failedRows, faults>>

(* let lf_array = self.encode(input_data)?; *)
Encode ==
    /\ pc = "encode"
    /\ \E reply \in EncoderReplies(Len(input_data)) :
         LET r == encode(input_data, graph, reply)
         IN  /\ encoderRuns' = encoderRuns + r.runs
             /\ lf_array' = r.tensor
             /\ IF r.status = "panic"
                THEN pc' = "done" /\ outcome' = "panic" /\ error' = "none"
                ELSE IF Propagates(r)
                THEN pc' = "done" /\ outcome' = "err" /\ error' = r.error
                ELSE pc' = "split" /\ outcome' = "none" /\ error' = r.error
    /\ UNCHANGED <<asset, graph, centroids, input_data, next, ranked_cluster_labels,
                   rankCalls, failedRows, faults>>

(* let cols = lf_array.dims()[1]; lf_array.chunks(cols as usize) *)
SplitRows ==
    /\ pc = "split"
    /\ IF Len(lf_array.dims) < 2 \/ lf_array.dims[2] = 0
       THEN pc' = "done" /\ outcome' = "panic" /\ next' = next
       ELSE pc' = "rank" /\ outcome' = outcome /\ next' = 1
    /\ UNCHANGED <<asset, graph, centroids, input_data, lf_array, ranked_cluster_labels,
                   error, encoderRuns, rankCalls, failedRows, faults>>

(* One turn of the map closure. *)
RankRow ==
    /\ pc = "rank"
    /\ LET cols == lf_array.dims[2]
           rows == Chunks(lf_array.values, cols)
       IN  /\ next <= Len(rows)
           /\ \E sessionFails \in BOOLEAN :
                LET row_tensor == WithValues(<<1, cols>>, rows[next])
                    cen == IF row_tensor.ok THEN Deref(centroids, asset) ELSE centroids
                    ranked == IF row_tensor.ok /\ cen.state = "ready"
                              THEN assign_cluster_labels(cen, row_tensor, sessionFails)
                              ELSE [ok |-> FALSE, labels |-> <<>>]
                    failed == OnRowError(ranked_cluster_labels)
                IN  /\ sessionFails => faults < MaxFaults
                    /\ faults' = IF sessionFails THEN faults + 1 ELSE faults
                    /\ centroids' = cen
                    /\ rankCalls' = IF row_tensor.ok THEN rankCalls + 1 ELSE rankCalls
                    /\ IF row_tensor.ok /\ cen.state = "poisoned"
                       THEN /\ pc' = "done" /\ outcome' = "panic"
                            /\ UNCHANGED <<next, ranked_cluster_labels, failedRows, error>>
                       ELSE IF ranked.ok
                       THEN /\ ranked_cluster_labels' = Append(ranked_cluster_labels, ranked.labels)
                            /\ next' = next + 1
                            /\ UNCHANGED <<pc, outcome, failedRows, error>>
                       ELSE IF failed.abort
                       THEN /\ pc' = "done" /\ outcome' = "err" /\ error' = "row"
                            /\ failedRows' = failedRows \cup {next}
                            /\ UNCHANGED <<next, ranked_cluster_labels>>
                       ELSE /\ ranked_cluster_labels' = failed.results
                            /\ failedRows' = failedRows \cup {next}
                            /\ next' = next + 1
                            /\ UNCHANGED <<pc, outcome, error>>
    /\ UNCHANGED <<asset, graph, input_data, lf_array, encoderRuns>>

(* collect and Ok(ranked_cluster_labels) *)
Return ==
    /\ pc = "rank"
    /\ next > Len(Chunks(lf_array.values, lf_array.dims[2]))
    /\ pc' = "done"
    /\ outcome' = "ok"
    /\ UNCHANGED <<asset, graph, centroids, input_data, lf_array, next,
                   ranked_cluster_labels, error, encoderRuns, rankCalls, failedRows, faults>>

(* The call is over (returned, or unwound after a panic): its frame is gone *)
(* and the caller may call again.                                           *)
Finish ==
    /\ pc = "done"
    /\ pc' = "idle"
    /\ input_data' = <<>>
    /\ lf_array' = NoTensor
    /\ next' = 0
    /\ ranked_cluster_labels' = <<>>
    /\ outcome' = "none"
    /\ error' = "none"
    /\ encoderRuns' = 0
    /\ rankCalls' = 0
    /\ failedRows' = {}
    /\ faults' = 0
    /\ UNCHANGED <<asset, graph, centroids>>

(* A caller reads NUM_CLUSTERS, which dereferences CENTROIDS. *)
NumClusters ==
    /\ pc = "idle"
    /\ centroids' = Deref(centroids, asset)
    /\ UNCHANGED <<asset, graph, pc, input_data, lf_array, next, ranked_cluster_labels,
                   outcome, error, encoderRuns, rankCalls, failedRows, faults>>

Next == Transform \/ Encode \/ SplitRows \/ RankRow \/ Return \/ Finish \/ NumClusters

Spec == Init /\ [][Next]_vars

----------------------------------------------------------------------------
(* Vocabulary of the properties. *)

InCall == pc \in {"split", "rank", "done"}

(* encode returned Ok to transform. *)
EncodeSucceeded == InCall /\ encoderRuns = 1 /\ error = "none"

(* The encoder answered with a matrix holding one row per input row. *)
OneRowPerInput ==
    /\ Len(lf_array.dims) = 2
    /\ lf_array.dims[1] = Len(input_data)

(* Row i of the latent matrix, read from the flat data by position. *)
LatentRow(i) ==
    LET c == lf_array.dims[2]
    IN  [j \in 1..c |-> lf_array.values[(i - 1) * c + j]]

(* Row i as the [1, cols] tensor the closure builds. *)
RowTensor(i) == [ok |-> TRUE, dims |-> <<1, lf_array.dims[2]>>, values |-> LatentRow(i)]

(* The ranking of row i when no session fails. *)
RankingOf(i) == assign_cluster_labels(centroids, RowTensor(i), FALSE)

(* The distance of row i to centroid c (counted from 0) as the ranker computes it. *)
ComputedDistance(i, c) == Distance(centroids, Slice(RowTensor(i)), c + 1)

K == centroids.dims[1]
D_lat == centroids.dims[2]

IsPermutation(labels, n) ==
    /\ Len(labels) = n
    /\ {labels[p] : p \in 1..Len(labels)} = 0..(n - 1)

(* Reference metric: squared differences of x and centroid c (counted from 0) *)
(* over the D_lat columns of the table, summed over columns lo..hi.          *)
RECURSIVE RefSum(_, _, _, _)
RefSum(x, c, lo, hi) ==
    IF lo > hi THEN 0
    ELSE IF lo = hi
    THEN (x[lo] - centroids.values[c * D_lat + lo]) * (x[lo] - centroids.values[c * D_lat + lo])
    ELSE RefSum(x, c, lo, (lo + hi) \div 2) + RefSum(x, c, (lo + hi) \div 2 + 1, hi)

RefDistance(x, c) == RefSum(x, c, 1, D_lat)

(* labels lists clusters by ascending d, equal d by ascending index. *)
SortedBy(labels, d(_)) ==
    \A p, q \in 1..Len(labels) :
        p < q => \/ d(labels[p]) < d(labels[q])
                 \/ (d(labels[p]) = d(labels[q]) /\ labels[p] < labels[q])

UniformWidth(lines) == \A a, b \in 1..Len(lines) : Len(lines[a]) = Len(lines[b])

----------------------------------------------------------------------------
(* Properties. *)

C2_RowFailureIsolated ==
    (pc = "done" /\ failedRows # {}) =>
       /\ outcome = "ok"
       /\ Len(ranked_cluster_labels) = Len(lf_array.values) \div lf_array.dims[2]
       /\ \A i \in 1..Len(ranked_cluster_labels) :
            IF i \in failedRows
            THEN ranked_cluster_labels[i] = <<>>
            ELSE /\ ranked_cluster_labels[i] = RankingOf(i).labels
                 /\ Len(ranked_cluster_labels[i]) = K
                 /\ ranked_cluster_labels[i] # <<>>

C2_Witness ==
    /\ pc = "done" /\ outcome = "ok"
    /\ Len(ranked_cluster_labels) = 3
    /\ failedRows = {2}
    /\ ranked_cluster_labels[2] = <<>>
    /\ Len(ranked_cluster_labels[1]) = K
    /\ Len(ranked_cluster_labels[3]) = K

(* C3: a ranking that assign_cluster_labels returned has as many entries as  *)
(* the centroid file has lines and lists every cluster index once.           *)
C3_RankingIsPermutation ==
    \A i \in 1..Len(ranked_cluster_labels) :
        i \notin failedRows
        => /\ centroids.state = "ready"
           /\ K = Len(asset.lines)
           /\ IsPermutation(ranked_cluster_labels[i], K)

C3_Witness ==
    /\ pc = "done"
    /\ asset = AssetWide
    /\ failedRows = {}
    /\ Len(ranked_cluster_labels) = 2
    /\ ranked_cluster_labels[1] = <<0, 2, 1>>
    /\ ranked_cluster_labels[2] = <<1, 2, 0>>

(* C4: every returned ranking is sorted by ascending distance to the         *)
(* centroids, equal distances by ascending index, and centroids              *)
(* [[0,0],[10,10],[5,5]] with the latent row [1,1] give [0, 2, 1].           *)
C4_SortedAndExample ==
    /\ \A i \in 1..Len(ranked_cluster_labels) :
         i \notin failedRows
         => LET d(c) == ComputedDistance(i, c)
            IN  SortedBy(ranked_cluster_labels[i], d)
    /\ (pc = "done" /\ outcome = "ok" /\ faults = 0 /\ asset = AssetExample
        /\ lf_array = Tensor(<<1, 2>>, <<1, 1>>))
       => ranked_cluster_labels = << <<0, 2, 1>> >>

(* C5: a latent row of width W >= D_lat is ranked by its first D_lat entries, *)
(* D_lat the column count of the table; a row of width W < D_lat fails.      *)
C5_SliceToTableWidth ==
    (pc \in {"rank", "done"} /\ faults = 0 /\ centroids.state = "ready")
    => \A i \in 1..Len(ranked_cluster_labels) :
         IF lf_array.dims[2] >= D_lat
         THEN /\ i \notin failedRows
              /\ IsPermutation(ranked_cluster_labels[i], K)
              /\ LET d(c) == RefDistance(LatentRow(i), c)
                 IN  SortedBy(ranked_cluster_labels[i], d)
         ELSE i \in failedRows

(* C6: a centroid file whose lines differ in width never yields a table. *)
C6_RaggedAssetRejected ==
    centroids.state = "ready" => UniformWidth(asset.lines)

(* C7: a non-empty batch whose rows differ in length fails in encode with a *)
(* shape error, and the encoder model is not run (stated for a model graph *)
(* that holds both operations, where nothing else stops encode earlier).   *)
C7_RaggedBatchRejected ==
    (InCall /\ input_data # <<>> /\ ~UniformWidth(input_data) /\ graph = {InputOp, OutputOp})
    => /\ outcome = "err"
       /\ error = "shape"
       /\ encoderRuns = 0

(* C8: once encode has succeeded, transform ends with Ok. *)
C8_OkAfterEncode ==
    (pc = "done" /\ EncodeSucceeded) => outcome = "ok"

(* C9: the encoder runs at most once per call and before any row is ranked; *)
(* when encode fails, transform returns that error and ranks no row.        *)
C9_EncoderOncePerBatch ==
    /\ encoderRuns <= 1
    /\ rankCalls > 0 => (encoderRuns = 1 /\ error = "none")
    /\ (InCall /\ error # "none")
       => /\ pc = "done"
          /\ outcome = "err"
          /\ rankCalls = 0
          /\ ranked_cluster_labels = <<>>

C9_Witness ==
    /\ pc = "done"
    /\ outcome = "err"
    /\ error = "run"
    /\ encoderRuns = 1
    /\ Len(input_data) = 3

(* C10: an empty batch ends in a panic, with the encoder not run and no row *)
(* ranked; it yields neither a list nor an error value.                     *)
C10_EmptyBatchPanics ==
    (InCall /\ input_data = <<>>)
    => /\ pc = "done"
       /\ outcome = "panic"
       /\ encoderRuns = 0
       /\ rankCalls = 0
       /\ ranked_cluster_labels = <<>>

C10_Witness ==
    /\ pc = "done"
    /\ input_data = <<>>
    /\ outcome = "panic"

====
